---- MODULE Spec2Model ----
(***************************************************************************)
(* A model of tag_reader.py: the tag-name parsing (extract_index,          *)
(* extract_child_names), the flattening of a PLC value (flatten_dict),     *)
(* the array pivot of format_csv, and the probe-then-write naming of the   *)
(* raw and pivoted CSV files (write_to_csv, format_csv) as driven by       *)
(* MainWindow.read_tag_clicked.                                            *)
(*                                                                         *)
(* Strings are sequences of one-character strings, so that the regular     *)
(* expressions and the f-strings of the source are computed character by   *)
(* character.  Tags and file names are single-line (a QLineEdit holds no   *)
(* line break), so `.` of a regular expression matches every character.    *)
(***************************************************************************)
EXTENDS Integers, Sequences, FiniteSets, TLC

VARIABLES
    \* tag parsing (extract_index, extract_child_names)
    tag, idxOut, childOut,
    \* one read's data path (flatten_dict, format_csv's pivot)
    root, value, stage, data, table,
    \* the tool's instances and the output directory
    instances, fs, pc, req, loc, reads, result, lost

parseVars == <<tag, idxOut, childOut>>
dataVars == <<root, value, stage, data, table>>
fsVars == <<instances, fs, pc, req, loc, reads, result, lost>>
vars == <<tag, idxOut, childOut, root, value, stage, data, table,
          instances, fs, pc, req, loc, reads, result, lost>>

(***************************************************************************)
(* Characters and strings                                                  *)
(***************************************************************************)
DigitChars == <<"0", "1", "2", "3", "4", "5", "6", "7", "8", "9">>

IsDigit(c) == \E i \in 1..Len(DigitChars) : DigitChars[i] = c

DigitVal(c) == (CHOOSE i \in 1..Len(DigitChars) : DigitChars[i] = c) - 1

\* int(s) of a string of decimal digits
RECURSIVE ParseInt(_)
ParseInt(s) ==
    IF s = <<>> THEN 0
    ELSE 10 * ParseInt(SubSeq(s, 1, Len(s) - 1)) + DigitVal(s[Len(s)])

\* str(n) of an integer n >= 0, as an f-string formats it
RECURSIVE IntToStr(_)
IntToStr(n) ==
    IF n < 10 THEN <<DigitChars[n + 1]>>
    ELSE IntToStr(n \div 10) \o <<DigitChars[(n % 10) + 1]>>

\* the characters of the model in code-point order (Python compares strings so)
AsciiOrder ==
    <<" ", ".", "0", "1", "2", "3", "4", "5", "6", "7", "8", "9", ":", "?",
      "P", "[", "]", "_", "a", "c", "d", "e", "g", "i", "m", "n", "o", "r",
      "s", "v", "w", "x", "y">>

Ord(c) == CHOOSE i \in 1..Len(AsciiOrder) : AsciiOrder[i] = c

\* s < t for Python strings
RECURSIVE StrLess(_, _)
StrLess(s, t) ==
    IF t = <<>> THEN FALSE
    ELSE IF s = <<>> THEN TRUE
    ELSE IF s[1] = t[1] THEN StrLess(Tail(s), Tail(t))
    ELSE Ord(s[1]) < Ord(t[1])

\* the position of the first c in s, 0 when there is none
FirstPos(s, c) ==
    IF \E i \in 1..Len(s) : s[i] = c
    THEN CHOOSE i \in 1..Len(s) : s[i] = c /\ \A j \in 1..(i - 1) : s[j] # c
    ELSE 0

StartsWith(s, p) == Len(s) >= Len(p) /\ SubSeq(s, 1, Len(p)) = p

EndsWith(s, p) == Len(s) >= Len(p) /\ SubSeq(s, Len(s) - Len(p) + 1, Len(s)) = p

RECURSIVE Concat(_)
Concat(ss) == IF ss = <<>> THEN <<>> ELSE ss[1] \o Concat(Tail(ss))

(***************************************************************************)
(* extract_index                                                           *)
(***************************************************************************)
ProgramPrefix == <<"P", "r", "o", "g", "r", "a", "m", ":">>

\* re.sub(r'^Program:[^.]+\.', '', tag)
StripProgram(t) ==
    IF StartsWith(t, ProgramPrefix)
    THEN LET rest == SubSeq(t, Len(ProgramPrefix) + 1, Len(t))
             d == FirstPos(rest, ".")
         IN IF d >= 2 THEN SubSeq(rest, d + 1, Len(rest)) ELSE t
    ELSE t

FirstSegmentWhole(t) == t

\* tag.split('.')[0]
FirstSegment(t) ==
    LET d == FirstPos(t, ".")
    IN IF d = 0 THEN t ELSE SubSeq(t, 1, d - 1)

\* the end of the run of digits of s that starts at i (i - 1 when s[i] is no digit)
RECURSIVE DigitRunEnd(_, _)
DigitRunEnd(s, i) ==
    IF i <= Len(s) /\ IsDigit(s[i]) THEN DigitRunEnd(s, i + 1) ELSE i - 1

\* re.findall(r'\[(\d+)\](?=[^.]*$)', s) for a segment s, which holds no dot:
\* the non-overlapping matches from the left, each as its integer
RECURSIVE FindBracketInts(_, _)
FindBracketInts(s, i) ==
    IF i > Len(s) THEN <<>>
    ELSE IF s[i] = "["
         THEN LET e == DigitRunEnd(s, i + 1)
              IN IF e >= i + 1 /\ e + 1 <= Len(s) /\ s[e + 1] = "]"
                 THEN <<ParseInt(SubSeq(s, i + 1, e))>> \o FindBracketInts(s, e + 2)
                 ELSE FindBracketInts(s, i + 1)
         ELSE FindBracketInts(s, i + 1)

\* the result of extract_index: <<n>> for the integer n, <<>> for None
IndexOfMatches(m) ==
    IF Len(m) >= 2 THEN <<m[1] + m[2]>>
    ELSE IF Len(m) = 1 THEN <<m[1]>>
    ELSE <<>>

extract_index(t) ==
    IndexOfMatches(FindBracketInts(FirstSegment(StripProgram(t)), 1))

(***************************************************************************)
(* extract_child_names                                                     *)
(***************************************************************************)
\* the positions i of s where `].` starts and at least one character follows:
\* where r'\]\.(.+)' can match
ChildMatchStarts(s) ==
    {i \in 1..Len(s) : s[i] = "]" /\ i + 2 <= Len(s) /\ s[i + 1] = "."}

Lowest(S) == CHOOSE i \in S : \A j \in S : i <= j

Highest(S) == CHOOSE i \in S : \A j \in S : j <= i

\* re.search takes the leftmost match
SearchStart(S) == Lowest(S)

\* the result of extract_child_names: the name returned, or raises = TRUE when
\* match.group(1) is called on None (AttributeError)
extract_child_names(t) ==
    LET starts == ChildMatchStarts(t)
    IN IF starts # {}
       THEN [raises |-> FALSE, name |-> SubSeq(t, SearchStart(starts) + 2, Len(t))]
       ELSE LET b == FirstPos(t, "[")
            IN IF b = 0 THEN [raises |-> TRUE, name |-> <<>>]
               ELSE [raises |-> FALSE, name |-> SubSeq(t, 1, b - 1)]

(***************************************************************************)
(* Tag parsing as a state machine: a tag, then the two calls in the order  *)
(* format_csv makes them                                                   *)
(***************************************************************************)
MaxPieces == 5

TagPieces ==
    { <<"a">>, <<".">>, <<"[">>, <<"]">>, <<"1">>, <<"[", "2", "]">>,
      ProgramPrefix }

Pending == [done |-> FALSE, raises |-> FALSE, val |-> <<>>]

ExtractIndex ==
    /\ ~idxOut.done
    /\ idxOut' = [done |-> TRUE, raises |-> FALSE, val |-> extract_index(tag)]
    /\ UNCHANGED <<tag, childOut>>
    /\ UNCHANGED <<dataVars, fsVars>>

ExtractChildNames ==
    /\ idxOut.done
    /\ ~childOut.done
    /\ LET r == extract_child_names(tag)
       IN childOut' = [done |-> TRUE, raises |-> r.raises, val |-> r.name]
    /\ UNCHANGED <<tag, idxOut>>
    /\ UNCHANGED <<dataVars, fsVars>>

(***************************************************************************)
(* PLC values: a scalar, a list, or a dict (its keys in insertion order)   *)
(***************************************************************************)
Scalar(n) == [kind |-> "scalar", val |-> n, keys |-> <<>>, items |-> <<>>]

List(items) == [kind |-> "list", val |-> 0, keys |-> <<>>, items |-> items]

Dict(keys, items) == [kind |-> "dict", val |-> 0, keys |-> keys, items |-> items]

\* a cell of the pivot that no raw row fills (NaN, written as the empty string)
EmptyCell == [kind |-> "empty", val |-> 0, keys |-> <<>>, items |-> <<>>]

(***************************************************************************)
(* flatten_dict                                                            *)
(***************************************************************************)
\* dict(items): a key met again keeps its first position and takes the later value
RECURSIVE DictOf(_)
DictOf(items) ==
    IF items = <<>> THEN <<>>
    ELSE LET init == DictOf(SubSeq(items, 1, Len(items) - 1))
             last == items[Len(items)]
         IN IF \E j \in 1..Len(init) : init[j].tag = last.tag
            THEN [j \in 1..Len(init) |->
                     IF init[j].tag = last.tag THEN last ELSE init[j]]
            ELSE Append(init, last)

\* f"{parent_key}{sep}{k}" if parent_key else k
NewKey(parent_key, k) ==
    IF parent_key # <<>> THEN parent_key \o <<".">> \o k ELSE k

\* f"{new_key}[{i}]"
ElementKey(new_key, i) == new_key \o <<"[">> \o IntToStr(i) \o <<"]">>

RECURSIVE flatten_dict(_, _)
RECURSIVE FlattenItems(_, _, _)
RECURSIVE FlattenList(_, _, _)

\* the loop over enumerate(v), from the element at position i (1-based here)
FlattenList(items, new_key, i) ==
    IF i > Len(items) THEN <<>>
    ELSE LET item == items[i]
             key == ElementKey(new_key, i - 1)
         IN (IF item.kind = "dict"
             THEN flatten_dict(item, key)
             ELSE <<[tag |-> key, value |-> item]>>)
            \o FlattenList(items, new_key, i + 1)

\* the loop over d.items(), from the i-th item
FlattenItems(d, parent_key, i) ==
    IF i > Len(d.keys) THEN <<>>
    ELSE LET v == d.items[i]
             new_key == NewKey(parent_key, d.keys[i])
         IN (IF v.kind = "dict" THEN flatten_dict(v, new_key)
             ELSE IF v.kind = "list" THEN FlattenList(v.items, new_key, 1)
             ELSE <<[tag |-> new_key, value |-> v]>>)
            \o FlattenItems(d, parent_key, i + 1)

\* the ordered (tag, value) entries of the dict that flatten_dict returns
flatten_dict(d, parent_key) == DictOf(FlattenItems(d, parent_key, 1))

(***************************************************************************)
(* format_csv: the table written as the pivoted file                       *)
(***************************************************************************)
RECURSIVE SortInts(_)
SortInts(S) ==
    IF S = {} THEN <<>>
    ELSE LET m == Lowest(S) IN <<m>> \o SortInts(S \ {m})

RECURSIVE SortStrs(_)
SortStrs(S) ==
    IF S = {} THEN <<>>
    ELSE LET m == CHOOSE s \in S : \A t \in S : ~StrLess(t, s)
         IN <<m>> \o SortStrs(S \ {m})

IndexColumn == <<"i", "n", "d", "e", "x">>

NoTable == [ok |-> FALSE, columns |-> <<>>, rows |-> <<>>]

\* aggfunc='first': of the raw rows of a group, the one read first
AggFirst(S) == Lowest(S)

\* df.pivot_table(index='index', columns='child_name', values='value',
\* aggfunc='first') and reset_index, for rows whose child names were extracted:
\* rows with no index (NaN) are left out of the groups
PivotTable(rows, idx, child) ==
    LET kept == {i \in 1..Len(rows) : idx[i] # <<>>}
        indices == SortInts({idx[i][1] : i \in kept})
        names == SortStrs({child[i] : i \in kept})
        cell(n, c) ==
            LET grp == {i \in kept : idx[i][1] = n /\ child[i] = c}
            IN IF grp = {} THEN EmptyCell ELSE rows[AggFirst(grp)].value
    IN IF \E j \in 1..Len(names) : names[j] = IndexColumn
       THEN NoTable  \* reset_index: cannot insert index, already exists
       ELSE [ok |-> TRUE,
             columns |-> <<IndexColumn>> \o names,
             rows |-> [r \in 1..Len(indices) |->
                          <<Scalar(indices[r])>>
                          \o [j \in 1..Len(names) |-> cell(indices[r], names[j])]]]

\* lines 72-81 of format_csv on the raw rows read back
FormatTable(rows, is_array) ==
    IF is_array
    THEN LET idx == [i \in 1..Len(rows) |-> extract_index(rows[i].tag)]
             ch == [i \in 1..Len(rows) |-> extract_child_names(rows[i].tag)]
         IN IF \E i \in 1..Len(rows) : ch[i].raises
            THEN NoTable
            ELSE PivotTable(rows, idx, [i \in 1..Len(rows) |-> ch[i].name])
    ELSE [ok |-> TRUE,
          columns |-> [i \in 1..Len(rows) |-> rows[i].tag],
          rows |-> << [i \in 1..Len(rows) |-> rows[i].value] >>]

(***************************************************************************)
(* One read's data path: the value read, flattened, then pivoted           *)
(***************************************************************************)
MaxSize == 4

ScalarInputs == {Scalar(1), Scalar(2)}

KeyNames == { <<"x">>, <<"y">> }

KeySeqs(k) ==
    {s \in [1..k -> KeyNames] : \A i, j \in 1..k : s[i] = s[j] => i = j}

\* the lists and dicts whose children are the sequences cs
Containers(cs) ==
    {List(c) : c \in cs}
    \cup UNION { {Dict(ks, c) : ks \in KeySeqs(Len(c))}
                 : c \in {c \in cs : Len(c) <= Cardinality(KeyNames)} }

\* SizeTable(n)[k], k in 1..n: vals, the values of exactly k nodes, and seqs, the
\* non-empty sequences of values of k nodes in all
RECURSIVE SizeTable(_)
SizeTable(n) ==
    IF n = 0 THEN <<>>
    ELSE LET prev == SizeTable(n - 1)
             vals == IF n = 1 THEN ScalarInputs \cup Containers({<<>>})
                     ELSE Containers(prev[n - 1].seqs)
             seqs == {<<c>> : c \in vals}
                     \cup UNION { {<<c>> \o r : c \in prev[k].vals,
                                               r \in prev[n - k].seqs}
                                  : k \in 1..(n - 1) }
         IN Append(prev, [vals |-> vals, seqs |-> seqs])

\* the value of the end-to-end scenario: [{x:1,y:2},{x:3,y:4}]
ExampleValue ==
    List(<< Dict(<< <<"x">>, <<"y">> >>, <<Scalar(1), Scalar(2)>>),
            Dict(<< <<"x">>, <<"y">> >>, <<Scalar(3), Scalar(4)>>) >>)

\* a struct array whose elements hold a nested array of structs
NestedExample ==
    List(<< Dict(<< <<"x">> >>,
                 << List(<< Dict(<< <<"y">> >>, <<Scalar(1)>>),
                            Dict(<< <<"y">> >>, <<Scalar(2)>>) >>) >>) >>)

\* an array of structs with a member named index
IndexExample == List(<< Dict(<< IndexColumn >>, <<Scalar(1)>>) >>)

\* an array of structs that do not hold the same members
RaggedExample ==
    List(<< Dict(<< <<"y">> >>, <<Scalar(1)>>),
            Dict(<< <<"x">>, <<"y">> >>, <<Scalar(2), Scalar(1)>>),
            Dict(<< <<"x">> >>, <<Scalar(2)>>) >>)

\* the values of at most n nodes, n >= 2, and the examples
ValueInputs(n) ==
    LET t == SizeTable(n - 1)
    IN UNION {t[k].vals : k \in 1..(n - 1)}
       \cup Containers(t[n - 1].seqs)
       \cup {ExampleValue, NestedExample, IndexExample, RaggedExample}

\* read_result.tag: a controller tag, and the first element of a range read
RootInputs == { <<"a">>, <<"a", "[", "2", "]">> }

IsArray(v) == v.kind = "list"

Flatten ==
    /\ stage = "read"
    /\ data' = flatten_dict(Dict(<<root>>, <<value>>), <<>>)
    /\ stage' = "flat"
    /\ UNCHANGED <<root, value, table>>
    /\ UNCHANGED <<parseVars, fsVars>>

Pivot ==
    /\ stage = "flat"
    /\ table' = FormatTable(data, IsArray(value))
    /\ stage' = "pivot"
    /\ UNCHANGED <<root, value, data>>
    /\ UNCHANGED <<parseVars, fsVars>>

(***************************************************************************)
(* sanitize_filename and validate_inputs                                   *)
(***************************************************************************)
\* the characters of r'[<>:"/\\|?*]'
InvalidChars == {"<", ">", ":", "\"", "/", "\\", "|", "?", "*"}

RECURSIVE RemoveInvalid(_)
RemoveInvalid(s) ==
    IF s = <<>> THEN <<>>
    ELSE (IF s[1] \in InvalidChars THEN <<>> ELSE <<s[1]>>) \o RemoveInvalid(Tail(s))

\* s.strip(c), for the characters of the set cs
RECURSIVE StripChars(_, _)
StripChars(s, cs) ==
    IF s = <<>> THEN <<>>
    ELSE IF s[1] \in cs THEN StripChars(Tail(s), cs)
    ELSE IF s[Len(s)] \in cs THEN StripChars(SubSeq(s, 1, Len(s) - 1), cs)
    ELSE s

Whitespace == {" "}

\* str.strip()
Strip(s) == StripChars(s, Whitespace)

CsvExt == <<".", "c", "s", "v">>

sanitize_filename(filename) ==
    LET stripped == StripChars(Strip(RemoveInvalid(filename)), {"."})
    IN IF EndsWith(stripped, CsvExt)
       THEN SubSeq(stripped, 1, Len(stripped) - Len(CsvExt))
       ELSE stripped

\* read_tag_clicked, lines 254-257: the tag stands in for a blank file-name field
ResolvedFileName(tag_input, field) == IF field = <<>> THEN tag_input ELSE field

\* validate_inputs raises no ValueError
validate_inputs(tag_input, ip_input, file_name) ==
    /\ Strip(tag_input) # <<>>
    /\ Strip(ip_input) # <<>>
    /\ Strip(file_name) # <<>>

(***************************************************************************)
(* The output directory                                                    *)
(***************************************************************************)
RawMarker == <<"_", "r", "a", "w">>

ExistsNever(fsys, name) == FALSE

\* os.path.exists(os.path.join(save_location, f'{name}.csv'))
Exists(fsys, name) == name \in DOMAIN fsys

RevNameFromZero(base, rev) == base \o <<"_">> \o IntToStr(rev - 1)

\* f'{base}_{rev_num}'
RevName(base, rev) == base \o <<"_">> \o IntToStr(rev)

KeepsRawNever(include_raw) == FALSE

\* line 93: the raw file is kept
KeepsRaw(include_raw) == include_raw

OldFile == [by |-> 0, read |-> 0, kind |-> "old"]

\* open(path, 'w') and to_csv create the file or truncate the one that is there
WriteFile(fsys, name, content) ==
    [n \in DOMAIN fsys \cup {name} |-> IF n = name THEN content ELSE fsys[n]]

\* os.remove
RemoveFile(fsys, name) == [n \in DOMAIN fsys \ {name} |-> fsys[n]]

Overwrites(fsys, name, content) ==
    IF name \in DOMAIN fsys
    THEN {[name |-> name, old |-> fsys[name], new |-> content]}
    ELSE {}

(***************************************************************************)
(* read_tag_clicked, read_tag, write_to_csv and format_csv, one file-system *)
(* call or PLC call per step                                               *)
(***************************************************************************)
\* the reads one instance makes, alone and beside another instance
MaxReads == 2

MaxRaceReads == 1

Instances == {1, 2}

TagFieldInputs == { <<>>, <<"a">> }

IpInputs == { <<" ">>, <<"1">> }

FileFieldInputs ==
    { <<>>, <<" ">>, <<"?">>, <<"a", "_", "r", "a", "w">>,
      <<"a", "_", "1", ".", "c", "s", "v">> }

\* two instances asked for the same tag, the file-name field left blank
RaceTagInputs == { <<"a">> }

RaceIpInputs == { <<"1">> }

RaceFileInputs == { <<>> }

RaceInitialFiles == { <<"a">> }

InitialFiles ==
    { <<"a">>, <<"a", "_", "1">>, <<"a", "_", "r", "a", "w">>,
      <<"a", "_", "r", "a", "w", "_", "1">> }

NoRequest == [tag |-> <<>>, ip |-> <<>>, file_name |-> <<>>, include_raw |-> FALSE]

NoLocals ==
    [plc_opened |-> FALSE, fs_used |-> FALSE, raw_written |-> FALSE,
     is_array |-> FALSE, og_file |-> <<>>, csv_file |-> <<>>, out_file |-> <<>>,
     rev_num |-> 0]

\* control is back in read_tag_clicked with the result r; of the locals l of the
\* calls that returned, what the read did stays on record
Return(p, r, l) ==
    /\ pc' = [pc EXCEPT ![p] = "idle"]
    /\ result' = [result EXCEPT ![p] = r]
    /\ loc' = [loc EXCEPT ![p] = [l EXCEPT !.is_array = FALSE, !.og_file = <<>>,
                                            !.out_file = <<>>, !.rev_num = 0]]

\* read_tag_clicked up to the call of read_tag (lines 251-266), the texts of the
\* tag, IP and file-name fields drawn from the sets given
ClickWith(p, limit, tags, ips, fields) ==
    /\ pc[p] = "idle"
    /\ reads[p] < limit
    /\ \E t \in tags, ip \in ips, f \in fields, raw \in BOOLEAN :
          LET file_name == ResolvedFileName(t, f)
          IN /\ req' = [req EXCEPT ![p] = [tag |-> t, ip |-> ip,
                                          file_name |-> file_name,
                                          include_raw |-> raw]]
             /\ IF validate_inputs(t, ip, file_name)
                THEN /\ pc' = [pc EXCEPT ![p] = "connect"]
                     /\ result' = [result EXCEPT ![p] = "none"]
                     /\ loc' = [loc EXCEPT ![p] = NoLocals]
                ELSE Return(p, "rejected", NoLocals)
    /\ reads' = [reads EXCEPT ![p] = @ + 1]
    /\ UNCHANGED <<instances, fs, lost>>
    /\ UNCHANGED <<parseVars, dataVars>>

Click(p) == ClickWith(p, MaxReads, TagFieldInputs, IpInputs, FileFieldInputs)

ClickRace(p) == ClickWith(p, MaxRaceReads, RaceTagInputs, RaceIpInputs, RaceFileInputs)

\* read_tag, lines 154-173: the PLC is contacted, then the file name sanitized
Connect(p) ==
    /\ pc[p] = "connect"
    /\ \E outcome \in {"unreachable", "error", "scalar", "array"} :
          IF outcome \in {"unreachable", "error"}
          THEN Return(p, "false", [loc[p] EXCEPT !.plc_opened = TRUE])
          ELSE /\ pc' = [pc EXCEPT ![p] = "raw_probe"]
               /\ loc' = [loc EXCEPT ![p].plc_opened = TRUE,
                                     ![p].is_array = (outcome = "array"),
                                     ![p].og_file = sanitize_filename(req[p].file_name)]
               /\ UNCHANGED result
    /\ UNCHANGED <<instances, fs, req, reads, lost>>
    /\ UNCHANGED <<parseVars, dataVars>>

\* write_to_csv, lines 128-131 and 135-136
RawProbe(p) ==
    /\ pc[p] = "raw_probe"
    /\ LET base == loc[p].og_file \o RawMarker
       IN IF Exists(fs, base)
          THEN /\ pc' = [pc EXCEPT ![p] = "raw_loop"]
               /\ loc' = [loc EXCEPT ![p].fs_used = TRUE, ![p].rev_num = 1]
          ELSE /\ pc' = [pc EXCEPT ![p] = "raw_write"]
               /\ loc' = [loc EXCEPT ![p].fs_used = TRUE, ![p].rev_num = 1,
                                     ![p].csv_file = base]
    /\ UNCHANGED <<instances, fs, req, reads, result, lost>>
    /\ UNCHANGED <<parseVars, dataVars>>

\* write_to_csv, lines 132-134
RawLoop(p) ==
    /\ pc[p] = "raw_loop"
    /\ LET base == loc[p].og_file \o RawMarker
       IN IF Exists(fs, RevName(base, loc[p].rev_num))
          THEN /\ loc' = [loc EXCEPT ![p].rev_num = @ + 1]
               /\ UNCHANGED pc
          ELSE /\ loc' = [loc EXCEPT ![p].csv_file = RevName(base, loc[p].rev_num)]
               /\ pc' = [pc EXCEPT ![p] = "raw_write"]
    /\ UNCHANGED <<instances, fs, req, reads, result, lost>>
    /\ UNCHANGED <<parseVars, dataVars>>

\* write_to_csv, lines 138-143
RawWrite(p) ==
    /\ pc[p] = "raw_write"
    /\ LET content == [by |-> p, read |-> reads[p], kind |-> "raw"]
       IN /\ fs' = WriteFile(fs, loc[p].csv_file, content)
          /\ lost' = lost \cup Overwrites(fs, loc[p].csv_file, content)
    /\ loc' = [loc EXCEPT ![p].raw_written = TRUE]
    /\ pc' = [pc EXCEPT ![p] = "pivot"]
    /\ UNCHANGED <<instances, req, reads, result>>
    /\ UNCHANGED <<parseVars, dataVars>>

\* format_csv, lines 69-83: the raw file is read back and pivoted in memory.
\* pd.read_csv raises when the file is gone; whether the pivot raises is for the
\* data to tell (FormatTable), and is left open here
PivotRead(p) ==
    /\ pc[p] = "pivot"
    /\ \E ok \in BOOLEAN :
          IF ok /\ loc[p].csv_file \in DOMAIN fs
          THEN /\ pc' = [pc EXCEPT ![p] = "piv_probe"]
               /\ loc' = [loc EXCEPT ![p].rev_num = 1]
               /\ UNCHANGED result
          ELSE Return(p, "false", loc[p])
    /\ UNCHANGED <<instances, fs, req, reads, lost>>
    /\ UNCHANGED <<parseVars, dataVars>>

\* format_csv, line 85
PivProbe(p) ==
    /\ pc[p] = "piv_probe"
    /\ IF Exists(fs, loc[p].og_file)
       THEN /\ pc' = [pc EXCEPT ![p] = "piv_loop"]
            /\ UNCHANGED loc
       ELSE /\ pc' = [pc EXCEPT ![p] = "piv_write"]
            /\ loc' = [loc EXCEPT ![p].out_file = loc[p].og_file]
    /\ UNCHANGED <<instances, fs, req, reads, result, lost>>
    /\ UNCHANGED <<parseVars, dataVars>>

\* format_csv, lines 86-89
PivLoop(p) ==
    /\ pc[p] = "piv_loop"
    /\ IF Exists(fs, RevName(loc[p].og_file, loc[p].rev_num))
       THEN /\ loc' = [loc EXCEPT ![p].rev_num = @ + 1]
            /\ UNCHANGED pc
       ELSE /\ loc' = [loc EXCEPT ![p].out_file =
                                      RevName(loc[p].og_file, loc[p].rev_num)]
            /\ pc' = [pc EXCEPT ![p] = "piv_write"]
    /\ UNCHANGED <<instances, fs, req, reads, result, lost>>
    /\ UNCHANGED <<parseVars, dataVars>>

\* format_csv, line 91
PivWrite(p) ==
    /\ pc[p] = "piv_write"
    /\ LET content == [by |-> p, read |-> reads[p], kind |-> "pivot"]
       IN /\ fs' = WriteFile(fs, loc[p].out_file, content)
          /\ lost' = lost \cup Overwrites(fs, loc[p].out_file, content)
    /\ pc' = [pc EXCEPT ![p] = "remove"]
    /\ UNCHANGED <<instances, req, loc, reads, result>>
    /\ UNCHANGED <<parseVars, dataVars>>

\* format_csv, lines 93-101: os.remove raises when the file is gone
Remove(p) ==
    /\ pc[p] = "remove"
    /\ IF KeepsRaw(req[p].include_raw)
       THEN /\ Return(p, "true", loc[p])
            /\ UNCHANGED fs
       ELSE IF loc[p].csv_file \in DOMAIN fs
            THEN /\ fs' = RemoveFile(fs, loc[p].csv_file)
                 /\ Return(p, "true", loc[p])
            ELSE /\ Return(p, "false", loc[p])
                 /\ UNCHANGED fs
    /\ UNCHANGED <<instances, req, reads, lost>>
    /\ UNCHANGED <<parseVars, dataVars>>

(***************************************************************************)
(* Specifications                                                          *)
(***************************************************************************)
ParseIdle == /\ tag = <<>> /\ idxOut = Pending /\ childOut = Pending

DataIdle ==
    /\ root = <<>> /\ value = Scalar(0) /\ stage = "off" /\ data = <<>>
    /\ table = NoTable

FsIdle ==
    /\ instances = {} /\ fs = <<>> /\ pc = <<>> /\ req = <<>> /\ loc = <<>>
    /\ reads = <<>> /\ result = <<>> /\ lost = {}

FsInit(running, files) ==
    /\ instances = running
    /\ fs \in {[n \in S |-> OldFile] : S \in SUBSET files}
    /\ pc = [p \in running |-> "idle"]
    /\ req = [p \in running |-> NoRequest]
    /\ loc = [p \in running |-> NoLocals]
    /\ reads = [p \in running |-> 0]
    /\ result = [p \in running |-> "none"]
    /\ lost = {}

\* one instance of the tool: the single-process desktop use
Init == ParseIdle /\ DataIdle /\ FsInit({1}, InitialFiles)

\* one or two instances on the same save location
InitRace == ParseIdle /\ DataIdle /\ \E running \in {{1}, Instances} : FsInit(running, RaceInitialFiles)

Next ==
    \/ \E p \in instances : Click(p)
    \/ \E p \in instances : Connect(p)
    \/ \E p \in instances : RawProbe(p)
    \/ \E p \in instances : RawLoop(p)
    \/ \E p \in instances : RawWrite(p)
    \/ \E p \in instances : PivotRead(p)
    \/ \E p \in instances : PivProbe(p)
    \/ \E p \in instances : PivLoop(p)
    \/ \E p \in instances : PivWrite(p)
    \/ \E p \in instances : Remove(p)

Spec == Init /\ [][Next]_vars

NextRace ==
    \/ \E p \in instances : ClickRace(p)
    \/ \E p \in instances : Connect(p)
    \/ \E p \in instances : RawProbe(p)
    \/ \E p \in instances : RawLoop(p)
    \/ \E p \in instances : RawWrite(p)
    \/ \E p \in instances : PivotRead(p)
    \/ \E p \in instances : PivProbe(p)
    \/ \E p \in instances : PivLoop(p)
    \/ \E p \in instances : PivWrite(p)
    \/ \E p \in instances : Remove(p)

SpecRace == InitRace /\ [][NextRace]_vars

InitParse ==
    /\ \E n \in 0..MaxPieces : \E ps \in [1..n -> TagPieces] : tag = Concat(ps)
    /\ idxOut = Pending /\ childOut = Pending
    /\ DataIdle /\ FsIdle

NextParse == ExtractIndex \/ ExtractChildNames

SpecParse == InitParse /\ [][NextParse]_vars

InitData ==
    /\ root \in RootInputs /\ value \in ValueInputs(MaxSize) /\ stage = "read"
    /\ data = <<>> /\ table = NoTable
    /\ ParseIdle /\ FsIdle

NextData == Flatten \/ Pivot

SpecData == InitData /\ [][NextData]_vars

(***************************************************************************)
(* Properties of tag parsing (under SpecParse)                             *)
(***************************************************************************)
\* the tag without a leading Program:<name>. qualifier
Unscoped(t) ==
    LET n == Len(ProgramPrefix)
        ends == {d \in (n + 2)..Len(t) :
                    /\ SubSeq(t, 1, n) = ProgramPrefix
                    /\ t[d] = "."
                    /\ \A j \in (n + 1)..(d - 1) : t[j] # "."}
    IN IF ends = {} THEN t
       ELSE SubSeq(t, (CHOOSE d \in ends : TRUE) + 1, Len(t))

\* the first dot-segment of the unscoped tag
SegmentOf(t) ==
    LET u == Unscoped(t)
        n == CHOOSE n \in 0..Len(u) :
                 /\ \A j \in 1..n : u[j] # "."
                 /\ (n = Len(u) \/ u[n + 1] = ".")
    IN SubSeq(u, 1, n)

\* the bracketed integers of s: <<i, j>> with s[i] = "[", s[j] = "]" and only
\* digits, at least one, between them
Bracketed(s) ==
    {b \in (1..Len(s)) \X (1..Len(s)) :
        /\ s[b[1]] = "[" /\ s[b[2]] = "]" /\ b[2] > b[1] + 1
        /\ \A k \in (b[1] + 1)..(b[2] - 1) : IsDigit(s[k])}

BracketValue(s, b) == ParseInt(SubSeq(s, b[1] + 1, b[2] - 1))

\* C8: extract_index looks only at the first dot-segment of the tag without its
\* Program:<name>. qualifier: two bracketed integers there give their sum, exactly
\* one gives that integer, none gives None; so name[s][i] gets the index s + i and
\* brackets after the first dot never change the index.
C8_IndexFromFirstSegment ==
    idxOut.done =>
        LET seg == SegmentOf(tag)
            B == Bracketed(seg)
        IN /\ ~idxOut.raises
           /\ B = {} => idxOut.val = <<>>
           /\ Cardinality(B) = 1 =>
                  \A b \in B : idxOut.val = <<BracketValue(seg, b)>>
           /\ Cardinality(B) = 2 =>
                  \A b, c \in B :
                      b # c => idxOut.val = <<BracketValue(seg, b) + BracketValue(seg, c)>>

\* the element [1] of a range read that starts at [2] has the index 3
C8_Witness ==
    /\ idxOut.done
    /\ tag = <<"a", "[", "2", "]", "[", "1", "]">>
    /\ idxOut.val = <<3>>

\* the positions where `].` occurs in t
BracketDots(t) == {i \in 1..(Len(t) - 1) : t[i] = "]" /\ t[i + 1] = "."}

After(t, i) == SubSeq(t, i + 2, Len(t))

HasOpenBracket(t) == \E i \in 1..Len(t) : t[i] = "["

BeforeFirstOpen(t) ==
    SubSeq(t, 1, (CHOOSE i \in 1..Len(t) :
                      t[i] = "[" /\ \A j \in 1..(i - 1) : t[j] # "[") - 1)

\* C9 as stated: a tag that contains `].` gives everything after the LAST `].`
\* (stated here of the tags in which some text follows every `].`).
C9_AfterLastBracketDot ==
    (/\ childOut.done
     /\ BracketDots(tag) # {}
     /\ \A i \in BracketDots(tag) : After(tag, i) # <<>>)
    => (~childOut.raises /\ childOut.val = After(tag, Highest(BracketDots(tag))))

\* C9, amended: a tag in which `].` is followed by at least one character gives
\* everything after the FIRST `].`; a tag that contains `[` and in which no `].`
\* is followed by a character gives what is before its first `[`; one of the two
\* rules, never both, applies to a tag that contains `[`.
C9_AfterFirstBracketDot ==
    childOut.done =>
        LET followed == {i \in BracketDots(tag) : After(tag, i) # <<>>}
        IN /\ followed # {} =>
                  /\ ~childOut.raises
                  /\ childOut.val = After(tag, Lowest(BracketDots(tag)))
           /\ (followed = {} /\ HasOpenBracket(tag)) =>
                  /\ ~childOut.raises
                  /\ childOut.val = BeforeFirstOpen(tag)

\* a tag with two `].`, after which the texts differ, has been parsed
C9_Witness ==
    /\ childOut.done
    /\ Cardinality(BracketDots(tag)) >= 2
    /\ After(tag, Lowest(BracketDots(tag))) # After(tag, Highest(BracketDots(tag)))
    /\ childOut.val = After(tag, Lowest(BracketDots(tag)))

\* C10: tag parsing never fails: extract_index and extract_child_names return a
\* result for every tag, also for one with no bracket at all, whose index is None.
C10_ParsingNeverRaises ==
    tag # <<>> =>
        /\ idxOut.done => ~idxOut.raises
        /\ childOut.done => ~childOut.raises
        /\ (idxOut.done /\ ~HasOpenBracket(tag)) => idxOut.val = <<>>

(***************************************************************************)
(* Properties of the data path (under SpecData)                            *)
(***************************************************************************)
\* one entry per scalar leaf of v, in traversal order, under the key built so far
RECURSIVE Leaves(_, _)
Leaves(key, v) ==
    IF v.kind = "scalar" THEN <<[tag |-> key, value |-> v]>>
    ELSE IF v.kind = "list"
    THEN Concat([i \in 1..Len(v.items) |->
                    Leaves(key \o <<"[">> \o IntToStr(i - 1) \o <<"]">>, v.items[i])])
    ELSE Concat([i \in 1..Len(v.items) |->
                    Leaves(key \o <<".">> \o v.keys[i], v.items[i])])

\* a list that is an element of a list, somewhere in v
RECURSIVE HasListInList(_)
HasListInList(v) ==
    \/ v.kind = "list" /\ \E i \in 1..Len(v.items) : v.items[i].kind = "list"
    \/ \E i \in 1..Len(v.items) : HasListInList(v.items[i])

\* C7: flatten_dict of {root: value} emits exactly one entry per scalar leaf, in
\* traversal order, keyed by the path to the leaf, and every value it emits is a
\* scalar, also when sequences lie directly inside sequences.
C7_OneEntryPerScalarLeaf ==
    stage \in {"flat", "pivot"} =>
        /\ data = Leaves(root, value)
        /\ \A i \in 1..Len(data) : data[i].value.kind = "scalar"

\* flatten_dict does what C7 says of every value that holds no list directly
\* inside a list
FlattenWithoutListInList ==
    (stage \in {"flat", "pivot"} /\ ~HasListInList(value)) =>
        data = Leaves(root, value)

\* the raw rows that have an index, the indices and the child names they cover
IndexedRows == {i \in 1..Len(data) : extract_index(data[i].tag) # <<>>}

RowIndex(i) == extract_index(data[i].tag)[1]

RowChild(i) == extract_child_names(data[i].tag).name

\* the table has one row per index of the raw rows, ascending, the columns index
\* and then the child names, sorted, and in each cell the value of the first raw
\* row of that index and child name, or nothing
PivotShape ==
    LET N == Cardinality({RowIndex(i) : i \in IndexedRows})
        names == {RowChild(i) : i \in IndexedRows}
        cols == table.columns
    IN /\ Len(table.rows) = N
       /\ Len(cols) = Cardinality(names) + 1
       /\ cols[1] = IndexColumn
       /\ {cols[j] : j \in 2..Len(cols)} = names
       /\ \A j \in 2..(Len(cols) - 1) : StrLess(cols[j], cols[j + 1])
       /\ \A r \in 1..(N - 1) : table.rows[r][1].val < table.rows[r + 1][1].val
       /\ \A r \in 1..N :
             /\ Len(table.rows[r]) = Len(cols)
             /\ table.rows[r][1].kind = "scalar"
             /\ table.rows[r][1].val \in {RowIndex(i) : i \in IndexedRows}
             /\ \A j \in 2..Len(cols) :
                   LET grp == {i \in IndexedRows :
                                  /\ RowIndex(i) = table.rows[r][1].val
                                  /\ RowChild(i) = cols[j]}
                   IN IF grp = {} THEN table.rows[r][j] = EmptyCell
                      ELSE \E i \in grp :
                              /\ \A k \in grp : i <= k
                              /\ table.rows[r][j] = data[i].value

\* C6: every array read is pivoted into the table of PivotShape.
C6_ArrayPivot ==
    (stage = "pivot" /\ IsArray(value)) => (table.ok /\ PivotShape)

\* the pivot of an array read, when format_csv gets to write it, is the table of
\* PivotShape
PivotShapeWhenWritten ==
    (stage = "pivot" /\ IsArray(value) /\ table.ok) => PivotShape

\* the end-to-end scenario: arr = [{x:1,y:2},{x:3,y:4}] gives index,x,y and the
\* rows 0,1,2 and 1,3,4
ExamplePivoted ==
    (stage = "pivot" /\ value = ExampleValue /\ root = <<"a">>) =>
        /\ table.ok
        /\ table.columns = <<IndexColumn, <<"x">>, <<"y">> >>
        /\ table.rows = << <<Scalar(0), Scalar(1), Scalar(2)>>,
                           <<Scalar(1), Scalar(3), Scalar(4)>> >>

(***************************************************************************)
(* Properties of the file naming (under Spec and SpecRace)                 *)
(***************************************************************************)
Suffixed(base, n) == base \o <<"_">> \o IntToStr(n)

\* name is base when base is free in fsys, and else base_N for the lowest N >= 1
\* with base_N free; name is free
IsLowestFree(name, base, fsys) ==
    /\ name \notin DOMAIN fsys
    /\ IF base \notin DOMAIN fsys THEN name = base
       ELSE \E n \in 1..(Cardinality(DOMAIN fsys) + 1) :
               /\ name = Suffixed(base, n)
               /\ \A m \in 1..(n - 1) : Suffixed(base, m) \in DOMAIN fsys

\* C1: the name chosen for the raw file (base B_raw) and for the pivoted file
\* (base B) is the base when that is free and else the lowest free base_N, N >= 1;
\* it never names a file that exists.
C1_LowestFreeName ==
    \A p \in instances :
        /\ pc[p] = "raw_write" =>
               IsLowestFree(loc[p].csv_file, loc[p].og_file \o RawMarker, fs)
        /\ pc[p] = "piv_write" =>
               IsLowestFree(loc[p].out_file, loc[p].og_file, fs)

\* with a.csv and a_1.csv in the directory the pivot of base a is named a_2
C1_Witness ==
    \E p \in instances :
        /\ pc[p] = "piv_write"
        /\ loc[p].og_file = <<"a">>
        /\ {<<"a">>, <<"a", "_", "1">>} \subseteq DOMAIN fs
        /\ loc[p].out_file = <<"a", "_", "2">>

\* C2: no step of a read overwrites or deletes a file that was there before the
\* read: a file keeps its content, or it is the raw file of the read in progress
\* and that read removes it.
C2_NoOverwrite ==
    [][\A n \in DOMAIN fs :
          \/ n \in DOMAIN fs' /\ fs'[n] = fs[n]
          \/ /\ n \notin DOMAIN fs'
             /\ \E p \in instances :
                   /\ pc[p] = "remove"
                   /\ fs[n] = [by |-> p, read |-> reads[p], kind |-> "raw"]]_vars

\* a second read of the base a is over, its raw file removed, and a.csv and the
\* pivot of the first read are as they were
C2_Witness ==
    \E p \in instances :
        /\ pc[p] = "idle" /\ reads[p] = 2 /\ result[p] = "true"
        /\ loc[p].raw_written /\ loc[p].csv_file \notin DOMAIN fs
        /\ <<"a">> \in DOMAIN fs /\ fs[<<"a">>] = OldFile
        /\ \E n \in DOMAIN fs : fs[n] = [by |-> p, read |-> 1, kind |-> "pivot"]
        /\ \E n \in DOMAIN fs : fs[n] = [by |-> p, read |-> 2, kind |-> "pivot"]

PivotOf(p) == [by |-> p, read |-> reads[p], kind |-> "pivot"]

\* C3: once write_to_csv has returned, the raw file it wrote is gone exactly when
\* the pivot succeeded and include_raw was false; it is removed only after the
\* pivoted file is written, and a failed pivot leaves it, writes no pivoted file
\* and returns False.
C3_RawFileFate ==
    \A p \in instances :
        loc[p].raw_written =>
            LET gone == loc[p].csv_file \notin DOMAIN fs
                pivoted == \E n \in DOMAIN fs : fs[n] = PivotOf(p)
            IN /\ gone => (pivoted /\ ~req[p].include_raw)
               /\ pc[p] = "idle" =>
                      /\ result[p] \in {"true", "false"}
                      /\ gone <=> (result[p] = "true" /\ ~req[p].include_raw)
                      /\ pivoted <=> result[p] = "true"

\* a pivot failed with include_raw false: the raw file is there, no pivoted file
C3_Witness ==
    \E p \in instances :
        /\ pc[p] = "idle" /\ loc[p].raw_written /\ result[p] = "false"
        /\ ~req[p].include_raw
        /\ loc[p].csv_file \in DOMAIN fs
        /\ ~\E n \in DOMAIN fs : fs[n] = PivotOf(p)

\* C4: a request whose tag is empty, whose IP is empty or whose file name is empty
\* once sanitized is rejected before the PLC is contacted and before a file is
\* probed, written or removed.
C4_RejectedBeforeIO ==
    \A p \in instances :
        (/\ reads[p] > 0
         /\ \/ req[p].tag = <<>>
            \/ req[p].ip = <<>>
            \/ sanitize_filename(req[p].file_name) = <<>>)
        => (~loc[p].plc_opened /\ ~loc[p].fs_used)

\* C5: two instances can choose the same free name and one then overwrites the
\* file of the other; a file is never overwritten otherwise: not by the instance
\* that wrote it, not when it was there from the start, and never with a single
\* instance running.
C5_OverwriteOnlyByRace ==
    /\ \A e \in lost : e.old.by # 0 /\ e.old.by # e.new.by
    /\ Cardinality(instances) = 1 => lost = {}

\* both instances chose the name a for their pivoted file and the second write
\* replaced the first
C5_Witness ==
    \E e \in lost :
        /\ e.old.kind = "pivot" /\ e.new.kind = "pivot"
        /\ e.old.by # e.new.by
        /\ e.name \in DOMAIN fs /\ fs[e.name] = e.new

====
